---- MODULE Spec2Model ----
(***************************************************************************)
(* Model of the rolling strain-estimation engine of pulseGuard             *)
(* (src/esp_32_code/ppg_features.py, class StrainMonitor) and of the part  *)
(* of the live consumer loop that drives it                                *)
(* (src/esp_32_code/read_processed_data.py, lines 227-241), followed by    *)
(* the signal functions of src/esp_32_code/ppg_processor.py, the windowed  *)
(* feature builder of src/ml/train_general_model.py and the serial read    *)
(* loop of read_processed_data.py (lines 117-152).                         *)
(*                                                                         *)
(* Numbers.  The code works on Python floats.  Inputs (timestamp in        *)
(* seconds, hr in BPM, hrv and ibi in ms) are integers here.  Every        *)
(* derived float (the baselines, the means, hrv_drop, irregularity,        *)
(* strain_index) is kept in fixed point: the integer v stands for v/Scale, *)
(* each division rounds down.  The square root of np.std is the integer    *)
(* square root of 100 times the scaled variance (one decimal digit).       *)
(* None is modelled by the integer -1, which no timestamp and no median of *)
(* accepted values can equal.                                              *)
(***************************************************************************)
EXTENDS Integers, Sequences, FiniteSets, TLC

VARIABLES
    hr_window,            \* self.hr_window   (deque, maxlen 600)
    hrv_window,           \* self.hrv_window
    ibi_window,           \* self.ibi_window
    time_window,          \* self.time_window
    hr_baseline,          \* self.hr_baseline  (fixed point, None before)
    hrv_baseline,         \* self.hrv_baseline (fixed point, None before)
    baseline_computed,    \* self.baseline_computed
    baseline_start_time,  \* self.baseline_start_time (None before)
    ret,                  \* what the last call returned: <<>> for add_sample
                          \* (None), <<features>> for get_features
    drv,                  \* the feeding loop: position and scenario
    sessions,             \* further StrainMonitor instances, one per session
    pipe                  \* the last call of a ppg_processor function:
                          \* its name, its arguments and what it returned

vars == <<hr_window, hrv_window, ibi_window, time_window, hr_baseline,
          hrv_baseline, baseline_computed, baseline_start_time, ret, drv,
          sessions, pipe>>

-----------------------------------------------------------------------------
(* Program constants *)

window_sec == 60
baseline_sec == 30
DequeMaxLen == 600
IBI_MIN_MS == 400
IBI_MAX_MS == 1500
MinLenDefault == 100
BufMaxLen == 1200
Scale == 1000
None == -1

(* Bounds of the model *)

MaxSamples == 6
MaxOrdered == 6
BaseMax == 120
StressMax == 80
CalibMax == 120
MaxSessionSamples == 5
SessionCadence == 10
MaxIbis == 4
MaxBuf == 6
MaxWaveLen == 120
MaxPeakLen == 10
MaxPipeLen == 60
MaxRows == 3
MaxPair == 8
MaxFill == 640
MaxAnyLines == 3
MaxLines == 1900
PairCadence == 10

-----------------------------------------------------------------------------
(* Arithmetic helpers (numpy / builtins) *)

\* the element of a one-element set.  Only({e(v) : v \in {x}}) is e(x) with
\* x evaluated once: an intermediate result of the code, held in a local
Only(S) == CHOOSE v \in S : TRUE

Abs(x) == IF x < 0 THEN -x ELSE x
Min(a, b) == IF a <= b THEN a ELSE b
Max(a, b) == IF a >= b THEN a ELSE b

RECURSIVE Sum(_)
Sum(s) == IF s = <<>> THEN 0 ELSE Head(s) + Sum(Tail(s))

RECURSIVE SumSq(_)
SumSq(s) == IF s = <<>> THEN 0 ELSE Head(s) * Head(s) + SumSq(Tail(s))

\* np.mean, in fixed point
Mean(s) == (Sum(s) * Scale) \div Len(s)

\* the k-th smallest entry of s (1-based), as sorting would place it
KthSmallest(s, k) ==
    LET below(v) == Cardinality({i \in 1..Len(s) : s[i] < v})
        upto(v) == Cardinality({i \in 1..Len(s) : s[i] <= v})
    IN  CHOOSE v \in {s[i] : i \in 1..Len(s)} : below(v) < k /\ k <= upto(v)

\* np.median, in fixed point: middle value, or the mean of the two middle ones
Median(s) ==
    LET n == Len(s)
    IN  IF n % 2 = 1 THEN KthSmallest(s, (n + 1) \div 2) * Scale
        ELSE ((KthSmallest(s, n \div 2) + KthSmallest(s, n \div 2 + 1))
              * Scale) \div 2

\* floor of the square root, one binary digit at a time; b is the digit tried
RECURSIVE IsqrtIn(_, _, _)
IsqrtIn(n, r, b) ==
    IF b = 0 THEN r
    ELSE IF r + b <= 46340 /\ (r + b) * (r + b) <= n
    THEN IsqrtIn(n, r + b, b \div 2)
    ELSE IsqrtIn(n, r, b \div 2)

Isqrt(n) == IsqrtIn(n, 0, 32768)

\* (np.std(x) / np.mean(x)) / 0.15 in fixed point.  np.std is the population
\* deviation, so std/mean = sqrt(n*sum(x^2) - sum(x)^2) / sum(x).
CvOver015(s) ==
    Only({(2 * Scale * Isqrt(100 * d)) \div (3 * sum) :
            d \in {Len(s) * SumSq(s) - Sum(s) * Sum(s)}, sum \in {Sum(s)}})

\* [x for x in s if Test(x)]
Filter(s, Test(_)) == SelectSeq(s, Test)

\* list(deque)[k:] with 0-based k
From(s, k) == SubSeq(s, k + 1, Len(s))

\* deque(maxlen=DequeMaxLen).append
DequeAppend(s, x) ==
    LET a == Append(s, x)
    IN  IF Len(a) > DequeMaxLen THEN Tail(a) ELSE a

-----------------------------------------------------------------------------
(* StrainMonitor *)

\* the instance, as the record of its fields
Self ==
    [hr_window |-> hr_window, hrv_window |-> hrv_window,
     ibi_window |-> ibi_window, time_window |-> time_window,
     hr_baseline |-> hr_baseline, hrv_baseline |-> hrv_baseline,
     baseline_computed |-> baseline_computed,
     baseline_start_time |-> baseline_start_time]

\* StrainMonitor.__init__
NewMonitor ==
    [hr_window |-> <<>>, hrv_window |-> <<>>, ibi_window |-> <<>>,
     time_window |-> <<>>, hr_baseline |-> None, hrv_baseline |-> None,
     baseline_computed |-> FALSE, baseline_start_time |-> None]

\* add_sample that records the timestamp of every call, accepted or not
add_sample_time_always(self, timestamp, hr, hrv, ibi) ==
    IF hr > 0
    THEN [self EXCEPT
            !.hr_window = DequeAppend(@, hr),
            !.hrv_window = DequeAppend(@, hrv),
            !.ibi_window = DequeAppend(@, ibi),
            !.time_window = DequeAppend(@, timestamp),
            !.baseline_start_time =
                IF @ = None THEN timestamp ELSE @]
    ELSE [self EXCEPT !.time_window = DequeAppend(@, timestamp)]

\* add_sample that restarts the calibration clock at every accepted sample
add_sample_latest_start(self, timestamp, hr, hrv, ibi) ==
    IF hr > 0
    THEN [self EXCEPT
            !.hr_window = DequeAppend(@, hr),
            !.hrv_window = DequeAppend(@, hrv),
            !.ibi_window = DequeAppend(@, ibi),
            !.time_window = DequeAppend(@, timestamp),
            !.baseline_start_time = timestamp]
    ELSE self

\* StrainMonitor.add_sample
add_sample(self, timestamp, hr, hrv, ibi) ==
    IF hr > 0
    THEN [self EXCEPT
            !.hr_window = DequeAppend(@, hr),
            !.hrv_window = DequeAppend(@, hrv),
            !.ibi_window = DequeAppend(@, ibi),
            !.time_window = DequeAppend(@, timestamp),
            !.baseline_start_time =
                IF @ = None THEN timestamp ELSE @]
    ELSE self

HrOk(h) == h > 30
HrvOk(h) == h > 5
IbiOk(i) == 400 < i /\ i < 1500

\* compute_baseline with the sample-count requirement relaxed to 3 HR values
compute_baseline_relaxed(self) ==
    IF self.baseline_computed \/ self.baseline_start_time = None
    THEN self
    ELSE IF self.time_window = <<>>
    THEN self
    ELSE LET duration == self.time_window[Len(self.time_window)]
                         - self.baseline_start_time
             hrs == Filter(self.hr_window, HrOk)
             hrvs == Filter(self.hrv_window, HrvOk)
         IN  IF duration >= baseline_sec /\ Len(hrs) >= 3 /\ Len(hrvs) >= 3
             THEN [self EXCEPT !.hr_baseline = Median(hrs),
                               !.hrv_baseline = Median(hrvs),
                               !.baseline_computed = TRUE]
             ELSE self

\* StrainMonitor.compute_baseline
compute_baseline(self) ==
    IF self.baseline_computed \/ self.baseline_start_time = None
    THEN self
    ELSE IF self.time_window = <<>>
    THEN self
    ELSE LET duration == self.time_window[Len(self.time_window)]
                         - self.baseline_start_time
             hrs == Filter(self.hr_window, HrOk)
             hrvs == Filter(self.hrv_window, HrvOk)
         IN  IF duration >= baseline_sec /\ Len(hrs) >= 5 /\ Len(hrvs) >= 3
             THEN [self EXCEPT !.hr_baseline = Median(hrs),
                               !.hrv_baseline = Median(hrvs),
                               !.baseline_computed = TRUE]
             ELSE self

ZeroFeatures ==
    [hr_mean |-> 0, hrv_mean |-> 0, hrv_drop |-> 0, irregularity |-> 0,
     strain_index |-> 0, baseline_ready |-> FALSE]

\* next((i for i, t in enumerate(time_window) if t >= cutoff_time), 0)
KeepIdx(tw, cutoff_time) ==
    LET hits == {i \in 1..Len(tw) : tw[i] >= cutoff_time}
    IN  IF hits = {} THEN 0
        ELSE (CHOOSE i \in hits : \A j \in hits : i <= j) - 1

\* WindowStart that never trims: every sample held is used
WindowStartWhole(self) == 0

\* get_features, lines 94-99: the 0-based index the trailing window starts at
WindowStart(self) ==
    LET tw == self.time_window
        n == Len(tw)
        duration == IF n > 1 THEN tw[n] - tw[1] ELSE 0
    IN  IF duration > window_sec
        THEN KeepIdx(tw, tw[n] - window_sec)
        ELSE 0

\* HrvDrop taken as the ratio of the current HRV to the baseline
HrvDropRatio(self, hrv_mean) ==
    IF self.baseline_computed /\ self.hrv_baseline > 0 /\ hrv_mean > 0
    THEN Max(0, (hrv_mean * Scale) \div self.hrv_baseline)
    ELSE 0

\* HrvDrop taken as the size of the change, a rise included
HrvDropMagnitude(self, hrv_mean) ==
    IF self.baseline_computed /\ self.hrv_baseline > 0 /\ hrv_mean > 0
    THEN (Abs(self.hrv_baseline - hrv_mean) * Scale) \div self.hrv_baseline
    ELSE 0

\* get_features, lines 116-118
HrvDrop(self, hrv_mean) ==
    IF self.baseline_computed /\ self.hrv_baseline > 0 /\ hrv_mean > 0
    THEN Max(0, ((self.hrv_baseline - hrv_mean) * Scale)
                \div self.hrv_baseline)
    ELSE 0

\* Irregularity without the min(1.0, ...) cap
IrregularityUncapped(ibis) ==
    LET ibis_valid == Filter(ibis, IbiOk)
    IN  IF Len(ibis_valid) >= 2 THEN CvOver015(ibis_valid) ELSE 0

\* get_features, lines 121-125
Irregularity(ibis) ==
    LET ibis_valid == Filter(ibis, IbiOk)
    IN  IF Len(ibis_valid) >= 2
        THEN Min(Scale, CvOver015(ibis_valid))
        ELSE 0

\* StrainIndex with the irregularity term left out of the frozen path
StrainIndexNoIrregularity(self, hr_mean, hrv_mean, hrv_drop, irregularity) ==
    IF self.baseline_computed /\ self.hr_baseline > 0
    THEN LET hr_norm ==
                Min(Scale, Max(0, (hr_mean - self.hr_baseline) \div 30))
         IN  Min(Scale, Max(0, (hr_norm * 4 + hrv_drop * 4) \div 10))
    ELSE IF hr_mean > 30 * Scale
    THEN LET hr_simple ==
                Min(Scale, Max(0, (hr_mean - 60 * Scale) \div 50))
             hrv_simple ==
                IF hrv_mean < 10 * Scale THEN 0
                ELSE Scale - Min(Scale, hrv_mean \div 80)
         IN  Min(Scale, Max(0,
                (hr_simple * 5 + hrv_simple * 3 + irregularity * 2) \div 10))
    ELSE 0

\* get_features, lines 129-147
StrainIndex(self, hr_mean, hrv_mean, hrv_drop, irregularity) ==
    IF self.baseline_computed /\ self.hr_baseline > 0
    THEN LET hr_norm ==
                Min(Scale, Max(0, (hr_mean - self.hr_baseline) \div 30))
         IN  Min(Scale, Max(0,
                (hr_norm * 4 + hrv_drop * 4 + irregularity * 2) \div 10))
    ELSE IF hr_mean > 30 * Scale
    THEN LET hr_simple ==
                Min(Scale, Max(0, (hr_mean - 60 * Scale) \div 50))
             hrv_simple ==
                IF hrv_mean < 10 * Scale THEN 0
                ELSE Scale - Min(Scale, hrv_mean \div 80)
         IN  Min(Scale, Max(0,
                (hr_simple * 5 + hrv_simple * 3 + irregularity * 2) \div 10))
    ELSE 0

\* get_features, lines 108-156: the dict computed from the samples of the
\* trailing window
FeaturesOf(self, hrs, hrvs, ibis) ==
    Only({
        [hr_mean |-> hr_mean, hrv_mean |-> hrv_mean,
         hrv_drop |-> HrvDrop(self, hrv_mean),
         irregularity |-> irregularity,
         strain_index |->
            StrainIndex(self, hr_mean, hrv_mean, HrvDrop(self, hrv_mean),
                        irregularity),
         baseline_ready |-> self.baseline_computed] :
        hr_mean \in {IF hrs # <<>> THEN Mean(hrs) ELSE 0},
        hrv_mean \in {LET hrvs_valid == Filter(hrvs, HrvOk)
                      IN  IF hrvs_valid # <<>> THEN Mean(hrvs_valid) ELSE 0},
        irregularity \in {Irregularity(ibis)}})

\* get_features, lines 93-156
Features(self) ==
    Only({FeaturesOf(self, hrs, hrvs, ibis) :
            hrs \in {From(self.hr_window, WindowStart(self))},
            hrvs \in {From(self.hrv_window, WindowStart(self))},
            ibis \in {From(self.ibi_window, WindowStart(self))}})

\* get_features that builds the dict before it calls compute_baseline
get_features_late_calibration(self) ==
    Only({[self |-> s,
           ret |-> IF Len(self.hr_window) < 3 THEN ZeroFeatures
                   ELSE Features(self)] :
            s \in {IF ~self.baseline_computed THEN compute_baseline(self)
                   ELSE self}})

\* get_features that asks for 2 samples instead of 3
get_features_two_samples(self) ==
    Only({[self |-> s,
           ret |-> IF Len(s.hr_window) < 2 THEN ZeroFeatures
                   ELSE Features(s)] :
            s \in {IF ~self.baseline_computed THEN compute_baseline(self)
                   ELSE self}})

\* get_features with the test of line 79 inverted: compute_baseline is
\* never reached
get_features_uncalibrated(self) ==
    Only({[self |-> s,
           ret |-> IF Len(s.hr_window) < 3 THEN ZeroFeatures
                   ELSE Features(s)] :
            s \in {IF self.baseline_computed THEN compute_baseline(self)
                   ELSE self}})

\* get_features that recalibrates the baseline on every call
get_features_rolling(self) ==
    Only({[self |-> s,
           ret |-> IF Len(s.hr_window) < 3 THEN ZeroFeatures
                   ELSE Features(s)] :
            s \in {LET c == compute_baseline(
                                [self EXCEPT !.baseline_computed = FALSE])
                   IN  IF c.baseline_computed THEN c ELSE self}})

\* get_features that also cuts the four deques down to the trailing window
get_features_trimming(self) ==
    Only({[self |-> [s EXCEPT
                        !.hr_window = From(@, WindowStart(s)),
                        !.hrv_window = From(@, WindowStart(s)),
                        !.ibi_window = From(@, WindowStart(s)),
                        !.time_window = From(@, WindowStart(s))],
           ret |-> IF Len(s.hr_window) < 3 THEN ZeroFeatures
                   ELSE Features(s)] :
            s \in {IF ~self.baseline_computed THEN compute_baseline(self)
                   ELSE self}})

\* StrainMonitor.get_features: the instance afterwards and the returned dict
get_features(self) ==
    Only({[self |-> s,
           ret |-> IF Len(s.hr_window) < 3 THEN ZeroFeatures
                   ELSE Features(s)] :
            s \in {IF ~self.baseline_computed THEN compute_baseline(self)
                   ELSE self}})

-----------------------------------------------------------------------------
(* State machine: one StrainMonitor and its caller *)

Store(s) ==
    /\ hr_window' = s.hr_window
    /\ hrv_window' = s.hrv_window
    /\ ibi_window' = s.ibi_window
    /\ time_window' = s.time_window
    /\ hr_baseline' = s.hr_baseline
    /\ hrv_baseline' = s.hrv_baseline
    /\ baseline_computed' = s.baseline_computed
    /\ baseline_start_time' = s.baseline_start_time

\* the samples a caller hands in: <<hr, hrv, ibi>>
Rest == <<70, 50, 857>>
Tense == <<100, 20, 600>>
Poor == <<20, 3, 3000>>
NoBeat == <<0, 50, 857>>
Samples == {Rest, Tense, Poor, NoBeat}
Times == {0, 70}
OrderedTimes == {0, 30, 100}

\* the mock session of data/generate_mock_data.py: baseline 72/45, stress
\* 72+22 / 45*0.35, ibi = 60000/hr as read_processed_data.py derives it
MockRest == <<72, 45, 833>>
MockTense == <<94, 16, 638>>
Sessions == {<<Rest, Tense>>, <<MockRest, MockTense>>}
Cadences == {2, 10, 30}

Last(s) == s[Len(s)]

Free == [pc |-> "free", phase |-> "none", dt |-> 0, base |-> Rest,
         stress |-> Tense, onset |-> 0, peak |-> 0]

InitMonitor ==
    /\ hr_window = NewMonitor.hr_window
    /\ hrv_window = NewMonitor.hrv_window
    /\ ibi_window = NewMonitor.ibi_window
    /\ time_window = NewMonitor.time_window
    /\ hr_baseline = NewMonitor.hr_baseline
    /\ hrv_baseline = NewMonitor.hrv_baseline
    /\ baseline_computed = NewMonitor.baseline_computed
    /\ baseline_start_time = NewMonitor.baseline_start_time
    /\ ret = <<>>

\* no further instance has been constructed, no pipeline function called
NoSessions == <<>>
NoCall == [fn |-> "none", arg |-> <<>>, out |-> <<>>, raised |-> "none"]

InitApart ==
    /\ sessions = NoSessions
    /\ pipe = NoCall

Init ==
    /\ InitMonitor
    /\ InitApart
    /\ drv = Free

\* a call of add_sample
AddSample(t, x) ==
    /\ Len(hr_window) < MaxSamples
    /\ \E s \in {add_sample(Self, t, x[1], x[2], x[3])} : Store(s)
    /\ ret' = <<>>
    /\ UNCHANGED <<drv, sessions, pipe>>

\* a call of get_features
GetFeatures ==
    /\ \E r \in {get_features(Self)} : Store(r.self) /\ ret' = <<r.ret>>
    /\ UNCHANGED <<drv, sessions, pipe>>

Next ==
    \/ \E t \in Times, x \in Samples : AddSample(t, x)
    \/ GetFeatures

\* any calls, any timestamps
Spec == Init /\ [][Next]_vars

\* a call of add_sample whose timestamp is not below the newest one held
AddOrdered(t, x) ==
    /\ Len(hr_window) < MaxOrdered
    /\ time_window # <<>> => t >= Last(time_window)
    /\ \E s \in {add_sample(Self, t, x[1], x[2], x[3])} : Store(s)
    /\ ret' = <<>>
    /\ UNCHANGED <<drv, sessions, pipe>>

NextOrdered ==
    \/ \E t \in OrderedTimes, x \in Samples : AddOrdered(t, x)
    \/ GetFeatures

\* any calls, non-decreasing timestamps
SpecOrdered == Init /\ [][NextOrdered]_vars

-----------------------------------------------------------------------------
(* The live loop of read_processed_data.py, lines 227-234, fed a session:   *)
(* each pass adds the newest vitals and then asks for the features.  A      *)
(* session is a resting stream followed, once the baseline is frozen, by a  *)
(* stress stream; samples arrive every drv.dt seconds.                      *)

InitLoop ==
    /\ InitMonitor
    /\ InitApart
    /\ drv \in {[pc |-> "add", phase |-> "base", dt |-> d, base |-> ss[1],
                 stress |-> ss[2], onset |-> 0, peak |-> 0] :
                    d \in Cadences, ss \in Sessions}

NextTime == IF time_window = <<>> THEN 0 ELSE Last(time_window) + drv.dt

\* line 231: strain_monitor.add_sample(t[-1], display_hr, ...)
LoopAddSample ==
    /\ drv.pc = "add"
    /\ NextTime <= (IF drv.phase = "base" THEN BaseMax
                    ELSE drv.onset + StressMax)
    /\ \E x \in {IF drv.phase = "base" THEN drv.base ELSE drv.stress} :
       \E s \in {add_sample(Self, NextTime, x[1], x[2], x[3])} : Store(s)
    /\ ret' = <<>>
    /\ drv' = [drv EXCEPT !.pc = "get"]
    /\ UNCHANGED <<sessions, pipe>>

\* the subject comes under stress: from now on the stress stream is fed
LoopStressOnset ==
    /\ drv.pc = "add"
    /\ drv.phase = "base"
    /\ baseline_computed
    /\ drv' = [drv EXCEPT !.phase = "stress", !.onset = Last(time_window)]
    /\ UNCHANGED <<hr_window, hrv_window, ibi_window, time_window,
                   hr_baseline, hrv_baseline, baseline_computed,
                   baseline_start_time, ret, sessions, pipe>>

\* lines 233-234: features = get_features(); strain_history.append(...)
\* drv.peak is the largest strain_index appended during the first
\* window_sec seconds of the stress stream
LoopGetFeatures ==
    /\ drv.pc = "get"
    /\ \E r \in {get_features(Self)} :
           /\ Store(r.self)
           /\ ret' = <<r.ret>>
           /\ drv' = [drv EXCEPT
                        !.pc = "add",
                        !.peak =
                            IF /\ drv.phase = "stress"
                               /\ Last(time_window) <= drv.onset + window_sec
                            THEN Max(@, r.ret.strain_index)
                            ELSE @]
    /\ UNCHANGED <<sessions, pipe>>

NextLoop ==
    \/ LoopAddSample
    \/ LoopStressOnset
    \/ LoopGetFeatures

SpecLoop == InitLoop /\ [][NextLoop]_vars

-----------------------------------------------------------------------------
(* The same loop during calibration: samples with HR > 30 and HRV > 5 keep  *)
(* arriving, drv.dt seconds apart, and each pass asks for the features.     *)

CalibCadences == {15, 30}
CalibSamples == {Rest, Tense}

InitCalib ==
    /\ InitMonitor
    /\ InitApart
    /\ drv \in {[pc |-> "add", phase |-> "base", dt |-> d, base |-> Rest,
                 stress |-> Tense, onset |-> 0, peak |-> 0] :
                    d \in CalibCadences}

CalibAddSample(x) ==
    /\ drv.pc = "add"
    /\ NextTime <= CalibMax
    /\ \E s \in {add_sample(Self, NextTime, x[1], x[2], x[3])} : Store(s)
    /\ ret' = <<>>
    /\ drv' = [drv EXCEPT !.pc = "get"]
    /\ UNCHANGED <<sessions, pipe>>

NextCalib ==
    \/ \E x \in CalibSamples : CalibAddSample(x)
    \/ LoopGetFeatures

\* the loop keeps running (while True, line 117) while there is input
SpecCalib == InitCalib /\ [][NextCalib]_vars /\ WF_vars(NextCalib)

-----------------------------------------------------------------------------
(* Several monitoring sessions: one StrainMonitor instance each.  __init__  *)
(* (lines 27-36) binds every field to the instance, so sessions[k].self is  *)
(* the whole state of instance k.  sessions[k].alone is the same call       *)
(* sequence replayed on an instance that is the only one in the process.    *)

SessionIds == {1, 2}
SessionFeed == <<{Rest}, {Tense, Poor}>>

\* a write of instance k's fields that also rebinds hr_window of every
\* other instance, as a deque held by the class would be
SetInstanceSharedWindow(ss, k, s) ==
    [j \in DOMAIN ss |->
        IF j = k THEN [ss[j] EXCEPT !.self = s]
        ELSE [ss[j] EXCEPT !.self.hr_window = s.hr_window]]

\* the fields of instance k after a method call on it
SetInstance(ss, k, s) == [ss EXCEPT ![k].self = s]

InitSessions ==
    /\ InitMonitor
    /\ drv = Free
    /\ pipe = NoCall
    /\ sessions = [k \in SessionIds |->
                     [self |-> NewMonitor, ret |-> <<>>,
                      alone |-> NewMonitor, alone_ret |-> <<>>]]

Monitor == <<hr_window, hrv_window, ibi_window, time_window, hr_baseline,
             hrv_baseline, baseline_computed, baseline_start_time, ret>>

\* add_sample on instance k
SessionAddSample(k, x) ==
    /\ Len(sessions[k].self.hr_window) < MaxSessionSamples
    /\ \E t \in {SessionCadence * Len(sessions[k].self.time_window)} :
       \E s \in {add_sample(sessions[k].self, t, x[1], x[2], x[3])},
          a \in {add_sample(sessions[k].alone, t, x[1], x[2], x[3])} :
            sessions' = [SetInstance(sessions, k, s) EXCEPT
                            ![k].ret = <<>>,
                            ![k].alone = a,
                            ![k].alone_ret = <<>>]
    /\ UNCHANGED <<Monitor, drv, pipe>>

\* get_features on instance k
SessionGetFeatures(k) ==
    /\ \E r \in {get_features(sessions[k].self)},
          a \in {get_features(sessions[k].alone)} :
            sessions' = [SetInstance(sessions, k, r.self) EXCEPT
                            ![k].ret = <<r.ret>>,
                            ![k].alone = a.self,
                            ![k].alone_ret = <<a.ret>>]
    /\ UNCHANGED <<Monitor, drv, pipe>>

NextSessions ==
    \/ \E k \in SessionIds : \E x \in SessionFeed[k] : SessionAddSample(k, x)
    \/ \E k \in SessionIds : SessionGetFeatures(k)

SpecSessions == InitSessions /\ [][NextSessions]_vars

-----------------------------------------------------------------------------
(* ppg_processor.py: the functions of the signal pipeline.  Sample values,  *)
(* peak indices and intervals in ms are integers; heart rate and HRV are in *)
(* fixed point like the features above.                                     *)

\* s[keep]: indexing with a boolean array
RECURSIVE MaskIndex(_, _)
MaskIndex(s, keep) ==
    IF Len(s) = 0 THEN <<>>
    ELSE LET n == Len(s)
             front == MaskIndex(SubSeq(s, 1, n - 1), SubSeq(keep, 1, n - 1))
         IN  IF keep[n] THEN Append(front, s[n]) ELSE front

\* the range test with the upper limit left out
IbiRangeOkNoMax(x) == x >= IBI_MIN_MS

\* line 191: (ibi_ms >= IBI_MIN_MS) & (ibi_ms <= IBI_MAX_MS)
IbiRangeOk(x) == x >= IBI_MIN_MS /\ x <= IBI_MAX_MS

\* filter_valid_ibi that compares each interval with the last one it kept
filter_valid_ibi_last_kept(ibi_ms) ==
    LET valid == Filter(ibi_ms, IbiRangeOk)
        RECURSIVE Walk(_, _, _)
        Walk(i, last, acc) ==
            IF i > Len(valid) THEN acc
            ELSE IF Abs(valid[i] - last) > 300
            THEN Walk(i + 1, last, acc)
            ELSE Walk(i + 1, valid[i], Append(acc, valid[i]))
    IN  IF Len(valid) < 3 THEN valid
        ELSE Walk(2, valid[1], <<valid[1]>>)

\* filter_valid_ibi
filter_valid_ibi(ibi_ms) ==
    LET valid == Filter(ibi_ms, IbiRangeOk)
        keep == [i \in 1..Len(valid) |->
                    ~(i >= 2 /\ Abs(valid[i] - valid[i - 1]) > 300)]
    IN  IF Len(valid) < 3 THEN valid
        ELSE MaskIndex(valid, keep)

\* twice np.median(s), an integer for integer entries
Median2(s) == (2 * Median(s)) \div Scale

\* compute_hr that takes the median of the intervals as given
compute_hr_unfiltered(ibi_ms) ==
    IF Len(ibi_ms) < 1 THEN 0
    ELSE (2 * 60000 * Scale) \div Median2(ibi_ms)

\* compute_hr that wants three valid intervals before it reports a rate
compute_hr_three_beats(ibi_ms) ==
    LET valid == filter_valid_ibi(ibi_ms)
    IN  IF Len(valid) < 3 THEN 0
        ELSE (2 * 60000 * Scale) \div Median2(valid)

\* compute_hr, in fixed point
compute_hr(ibi_ms) ==
    LET valid == filter_valid_ibi(ibi_ms)
    IN  IF Len(valid) < 1 THEN 0
        ELSE (2 * 60000 * Scale) \div Median2(valid)

\* the members of a set of integers in ascending order: np.where(...)[0]
Ascending(I) ==
    [j \in 1..Cardinality(I) |->
        CHOOSE i \in I : Cardinality({k \in I : k < i}) = j - 1]

\* np.diff
Diff(s) == [k \in 1..(Len(s) - 1) |-> s[k + 1] - s[k]]

\* the 0-based indices at which s holds v
Where(s, v) == Ascending({k - 1 : k \in {j \in 1..Len(s) : s[j] = v}})

\* a slice that stops one entry early
SliceShort(s, a, b) == SubSeq(s, a + 1, Min(b, Len(s)) - 1)

\* s[a:b] for 0 <= a
Slice(s, a, b) == SubSeq(s, a + 1, Min(b, Len(s)))

\* mask.astype(int)
AsInt(mask) == [i \in 1..Len(mask) |-> IF mask[i] THEN 1 ELSE 0]

\* np.sum(mask): the number of true entries
CountTrue(mask) == Cardinality({i \in 1..Len(mask) : mask[i]})

\* lines 78-83 of extract_best_segment without the elif: the first of the
\* longest runs is kept
BestRunFirst(starts, ends, min_len) ==
    LET RECURSIVE Loop(_, _, _)
        Loop(k, best_start, best_end) ==
            IF k > Min(Len(starts), Len(ends)) THEN <<best_start, best_end>>
            ELSE LET s0 == starts[k]
                     e == ends[k]
                 IN  IF e - s0 >= min_len /\ e - s0 > best_end - best_start
                     THEN Loop(k + 1, s0, e)
                     ELSE Loop(k + 1, best_start, best_end)
    IN  Loop(1, 0, 0)

\* lines 78-83 of extract_best_segment: the loop over zip(starts, ends)
BestRun(starts, ends, min_len) ==
    LET RECURSIVE Loop(_, _, _)
        Loop(k, best_start, best_end) ==
            IF k > Min(Len(starts), Len(ends)) THEN <<best_start, best_end>>
            ELSE LET s0 == starts[k]
                     e == ends[k]
                 IN  IF e - s0 >= min_len /\ e - s0 > best_end - best_start
                     THEN Loop(k + 1, s0, e)
                     ELSE IF /\ e - s0 >= min_len
                             /\ e - s0 = best_end - best_start
                             /\ e > best_end
                     THEN Loop(k + 1, s0, e)
                     ELSE Loop(k + 1, best_start, best_end)
    IN  Loop(1, 0, 0)

\* extract_best_segment: <<segment, start_idx>>
extract_best_segment(signal, mask, min_len) ==
    IF CountTrue(mask) < min_len THEN <<(<<>>), 0>>
    ELSE LET diffs == Diff(<<0>> \o AsInt(mask) \o <<0>>)
             best == BestRun(Where(diffs, 1), Where(diffs, -1), min_len)
         IN  IF best[2] - best[1] >= min_len
             THEN <<Slice(signal, best[1], best[2]), best[1]>>
             ELSE <<(<<>>), 0>>

\* np.ptp
Ptp(s) ==
    LET vals == {s[i] : i \in 1..Len(s)}
    IN  (CHOOSE v \in vals : \A u \in vals : u <= v)
        - (CHOOSE v \in vals : \A u \in vals : v <= u)

\* 100 * np.percentile(g, 95), by linear interpolation between the two
\* nearest ranks
Percentile95x100(g) ==
    LET m == Len(g)
        lo == (95 * (m - 1)) \div 100
        frac == (95 * (m - 1)) % 100
        glo == KthSmallest(g, lo + 1)
        ghi == KthSmallest(g, Min(lo + 2, m))
    IN  100 * glo + frac * (ghi - glo)

\* lines 38-46: the 0-based indices masked for a large gradient
GradientBad(sig) ==
    LET n == Len(sig)
        grad == [k \in 1..(n - 1) |-> Abs(sig[k + 1] - sig[k])]
        thresh100 == Max(100 * 1000, 3 * Percentile95x100(grad))
        bad_diff == {k - 1 : k \in {j \in 1..(n - 1) :
                                        100 * grad[j] > thresh100}}
        w == Max(5, n \div 50)
    IN  UNION {Max(0, i - w)..(Min(n, i + w + 1) - 1) : i \in bad_diff}

\* the window starts of line 52: range(0, len(sig) - win, win // 2)
WindowStarts(n, win) ==
    {i \in 0..(n - win - 1) : i % (win \div 2) = 0}

\* lines 49-55: the 0-based indices masked for a flat window
FlatBad(sig) ==
    LET n == Len(sig)
        win == Min(50, n \div 4)
    IN  IF win >= 10
        THEN UNION {i..(Min(n, i + win) - 1) :
                i \in {j \in WindowStarts(n, win) :
                    400 * Ptp(Slice(sig, j, j + win))
                        < Max(400 * 1000, Median2(sig))}}
        ELSE {}

\* lines 58-59: the 0-based indices masked for a low signal
LowBad(sig) == IF Median2(sig) < 2 * 10000 THEN 0..(Len(sig) - 1) ELSE {}

\* mask_artifacts
mask_artifacts(signal) ==
    IF Len(signal) < 10 THEN [i \in 1..Len(signal) |-> TRUE]
    ELSE Only({[i \in 1..Len(signal) |-> (i - 1) \notin bad] :
                bad \in {GradientBad(signal) \cup FlatBad(signal)
                         \cup LowBad(signal)}})

\* the buffers handed in: sample i is worth 100 + i, so a segment shows
\* where it was cut from
Ramp(n) == [i \in 1..n |-> 100 + i]
Masks == UNION {[1..n -> BOOLEAN] : n \in 0..MaxBuf}
MinLens == {-1, 0, 1, 2, 3}

\* the raw buffers handed in: a triangle wave of period 10 around a level,
\* plain, flattened over its first half, or with a step in the middle
Wave(n, level, step) ==
    [i \in 1..n |-> level + step * Abs((i % 10) - 5)]
Flattened(n, level, step) ==
    [i \in 1..n |-> IF 2 * i <= n THEN level
                     ELSE level + step * Abs((i % 10) - 5)]
Stepped(n, level, step) ==
    [i \in 1..n |-> (IF 2 * i <= n THEN 0 ELSE 30000)
                     + level + step * Abs((i % 10) - 5)]

\* the signals handed to detect_peaks: pulses at any set of positions, of
\* equal, alternating or rising height
Heights == {[i \in 1..MaxPeakLen |-> 1],
            [i \in 1..MaxPeakLen |-> 1 + (i % 2)],
            [i \in 1..MaxPeakLen |-> i]}
Pulses(n, at, h) == [i \in 1..n |-> IF i \in at THEN h[i] ELSE 0]
PeakSignals ==
    {Pulses(MaxPeakLen, at, h) : at \in SUBSET (1..MaxPeakLen), h \in Heights}
    \cup {Pulses(n, {2, 6}, [i \in 1..n |-> 1]) : n \in {0, 9}}
PeakRates == {5, 12}

BufLens == {0, 5, 9, 10, 40, 99, 100, MaxWaveLen}

\* the buffers handed to the other stages and to the whole pipeline
StageLens == {0, 1, 2, 9, 27, 28, 29, 30, 45, MaxPipeLen}
StageSignals == {Wave(n, 50000, 400) : n \in StageLens}
Methods == {"ema", "mean"}
PipeRates == {10, 100}
PeakSets == {<<>>, <<3>>, <<2, 6>>, <<2, 6, 16>>, <<2, 6, 10, 20, 30>>}
Buffers ==
    UNION {{Wave(n, 50000, 400), Wave(n, 50000, 0), Wave(n, 5000, 400),
            Flattened(n, 50000, 400), Stepped(n, 50000, 400)} :
                n \in BufLens}

\* scipy.signal.find_peaks, step 1: the 0-based middles of the plateaus
\* that are higher than the samples on both sides (the ends never count)
LocalMaxima(x) ==
    LET n == Len(x)
        inner == 2..(n - 1)
    IN  {(l + r - 2) \div 2 : <<l, r>> \in
            {q \in inner \X inner :
                /\ q[1] <= q[2]
                /\ \A i \in q[1]..q[2] : x[i] = x[q[1]]
                /\ x[q[1] - 1] < x[q[1]]
                /\ x[q[2] + 1] < x[q[2]]}}

\* find_peaks, distance: peaks are visited from the highest to the lowest
\* (the later one first among equals), and a visited peak that is still
\* kept removes every peak closer than distance to it
RECURSIVE SelectByDistance(_, _, _, _)
SelectByDistance(x, todo, keep, distance) ==
    IF todo = {} THEN keep
    ELSE LET j == CHOOSE j \in todo : \A k \in todo :
                        \/ x[j + 1] > x[k + 1]
                        \/ x[j + 1] = x[k + 1] /\ j >= k
         IN  IF j \in keep
             THEN SelectByDistance(x, todo \ {j},
                    {k \in keep : k = j \/ Abs(k - j) >= distance},
                    distance)
             ELSE SelectByDistance(x, todo \ {j}, keep, distance)

\* find_peaks, prominence of the peak at 0-based p: its height above the
\* higher of the two lowest points between it and the next higher sample
\* (or the end) on each side
Prominence(x, p) ==
    LET n == Len(x)
        higherL == {i \in 1..p : x[i] > x[p + 1]}
        higherR == {i \in (p + 2)..n : x[i] > x[p + 1]}
        lo == IF higherL = {} THEN 1
              ELSE (CHOOSE i \in higherL : \A k \in higherL : k <= i) + 1
        hi == IF higherR = {} THEN n
              ELSE (CHOOSE i \in higherR : \A k \in higherR : i <= k) - 1
        lowest(a, b) == CHOOSE v \in {x[i] : i \in a..b} :
                            \A i \in a..b : v <= x[i]
    IN  x[p + 1] - Max(lowest(lo, p + 1), lowest(p + 1, hi))

\* find_peaks(x, distance=, prominence=, height=), the two thresholds
\* given in hundredths: height, then distance, then prominence
find_peaks(x, distance, prominence100, height100) ==
    LET high == {q \in LocalMaxima(x) : 100 * x[q + 1] >= height100}
        apart == SelectByDistance(x, high, high, distance)
    IN  Ascending({q \in apart : 100 * Prominence(x, q) >= prominence100})

\* line 154: max(1, int(0.4 * fs))
MinDistance(fs) == Max(1, (2 * fs) \div 5)

\* detect_peaks with the default min_distance_samples and prominence_ratio
detect_peaks(signal, fs) ==
    IF Len(signal) < 10 THEN <<>>
    ELSE LET sig_range == Ptp(signal)
         IN  IF sig_range = 0 THEN <<>>
             ELSE find_peaks(signal, MinDistance(fs),
                             Max(5 * sig_range, 100),
                             50 * Median2(signal) + 5 * sig_range)

\* what a function that may raise gives back
Ok(v) == [raised |-> "none", value |-> v]
Raise(exception) == [raised |-> exception, value |-> <<>>]

\* np.sum over the first k entries
RECURSIVE Total(_, _)
Total(s, k) == IF k = 0 THEN 0 ELSE s[k] + Total(s, k - 1)

\* lines 101-102: the baseline b, in hundredths and rounded down at each
\* entry, carried on up to entry number upto
RECURSIVE EmaExtend(_, _, _)
EmaExtend(signal, b, upto) ==
    IF Len(b) >= upto THEN b
    ELSE Only({Append(p, (200 * signal[Len(p) + 1] + 98 * p[Len(p)])
                         \div 100) :
                p \in {EmaExtend(signal, b, upto - 1)}})

\* lines 99-102: the whole baseline, worked out 16 entries at a time
RECURSIVE EmaBaseline(_, _)
EmaBaseline(signal, b) ==
    IF Len(b) >= Len(signal) THEN b
    ELSE Only({EmaBaseline(signal, nb) :
                nb \in {EmaExtend(signal, b,
                                  Min(Len(signal), Len(b) + 16))}})

\* remove_dc, the result in hundredths.  baseline[0] = signal[0] (line 100)
\* is an IndexError on an empty array; np.mean of an empty array is nan
\* with a warning, and the difference is the empty array
remove_dc(signal, method) ==
    IF method = "ema"
    THEN IF Len(signal) = 0 THEN Raise("IndexError")
         ELSE Ok(Only({[i \in 1..Len(signal) |-> 100 * signal[i] - b[i]] :
                        b \in {EmaBaseline(signal, <<100 * signal[1]>>)}}))
    ELSE Ok(Only({[i \in 1..Len(signal) |-> 100 * signal[i] - mean] :
                    mean \in {IF Len(signal) = 0 THEN 0
                              ELSE (100 * Total(signal, Len(signal)))
                                   \div Len(signal)}}))

\* signals a band-pass filter can give back: no pulse, pulses every gap
\* samples, or pulses every 4 samples that widen to every 10
Comb(n, gap) == [i \in 1..n |-> IF i % gap = 2 % gap THEN 100 ELSE 0]
Widening(n) ==
    [i \in 1..n |-> IF (i <= 14 /\ i % 4 = 2) \/ (i > 14 /\ i % 10 = 4)
                     THEN 100 ELSE 0]
Gaps == {3, 4, 7, 10, 15, 20, 40}
Filtered(n) ==
    {Comb(n, gap) : gap \in Gaps} \cup {Widening(n), [i \in 1..n |-> 0]}

\* bandpass_filter with order 4: the results it can end in.  butter gives
\* len(a) = len(b) = 9; filtfilt raises ValueError unless len(x) > padlen.
\* The filter's arithmetic is not modelled: the filtered signal is any
\* member of Filtered of the input's length
bandpass_filter(signal) ==
    LET padlen == Max(1, Min(3 * 9, Len(signal) - 2))
    IN  IF Len(signal) <= padlen THEN {Raise("ValueError")}
        ELSE {Ok(f) : f \in Filtered(Len(signal))}

\* peaks_to_ibi: the intervals in ms, rounded down
peaks_to_ibi(peak_indices, fs) ==
    IF Len(peak_indices) < 2 THEN <<>>
    ELSE [k \in 1..(Len(peak_indices) - 1) |->
            ((peak_indices[k + 1] - peak_indices[k]) * 1000) \div fs]

\* compute_hrv_rmssd, in tenths of a ms
compute_hrv_rmssd(ibi_ms) ==
    LET valid == filter_valid_ibi(ibi_ms)
    IN  IF Len(valid) < 2 THEN 0
        ELSE Only({Isqrt((100 * SumSq(diffs)) \div Len(diffs)) :
                    diffs \in {Diff(valid)}})

\* compute_hrv_sdnn, in tenths of a ms
compute_hrv_sdnn(ibi_ms) ==
    LET valid == filter_valid_ibi(ibi_ms)
    IN  IF Len(valid) < 2 THEN 0
        ELSE (10 * Isqrt(Len(valid) * SumSq(valid) - Sum(valid) * Sum(valid)))
             \div Len(valid)

\* the quality score without its cap
QualityUncapped(n) == IF n >= 2 THEN n * 15 ELSE 0

\* line 276
Quality(n) == IF n >= 2 THEN Min(100, n * 15) ELSE 0

\* lines 242-250: the result for a signal of fewer than 30 samples
ZeroVitals(n) ==
    [peaks |-> <<>>, ibi_ms |-> <<>>, hr |-> 0, hrv_rmssd |-> 0,
     hrv_sdnn |-> 0, filtered_signal |-> [i \in 1..n |-> 0], quality |-> 0]

\* lines 264-291: the result, given the filtered signal
VitalsOf(filtered, fs) ==
    Only({[peaks |-> peaks, ibi_ms |-> ibi_ms, hr |-> compute_hr(ibi_ms),
           hrv_rmssd |-> compute_hrv_rmssd(ibi_ms),
           hrv_sdnn |-> compute_hrv_sdnn(ibi_ms),
           filtered_signal |-> filtered,
           quality |-> Quality(Len(filter_valid_ibi(ibi_ms)))] :
            peaks \in {detect_peaks(filtered, fs)},
            ibi_ms \in {peaks_to_ibi(detect_peaks(filtered, fs), fs)}})

\* process_ppg_pipeline: the results it can end in
process_ppg_pipeline(signal, fs) ==
    IF Len(signal) < 30 THEN {Ok(ZeroVitals(Len(signal)))}
    ELSE LET dc_removed == remove_dc(signal, "ema")
         IN  IF dc_removed.raised # "none" THEN {dc_removed}
             ELSE {IF filtered.raised # "none" THEN filtered
                   ELSE Ok(VitalsOf(filtered.value, fs)) :
                        filtered \in bandpass_filter(dc_removed.value)}

\* the interval sequences handed in
IbiValues == {399, 400, 750, 800, 1100, 1500, 1501}
IbiSeqs == UNION {[1..n -> IbiValues] : n \in 0..MaxIbis}

\* a call and its return
Call(fn, arg, out) ==
    [fn |-> fn, arg |-> arg, out |-> out, raised |-> "none"]

\* a call that ended in an exception
Failed(fn, arg, exception) ==
    [fn |-> fn, arg |-> arg, out |-> <<>>, raised |-> exception]

\* a call of a function that may raise, given its result
CallOf(fn, arg, result) ==
    IF result.raised = "none" THEN Call(fn, arg, result.value)
    ELSE Failed(fn, arg, result.raised)

\* The functions keep no state between calls, so a behaviour makes one call:
\* the caller holds the function's name and the arguments, then calls.
ToCall(fn, arg) == [pc |-> "call", fn |-> fn, arg |-> arg]

\* the i-th argument of the call to make, when it is a call of fn
Arg(fn, i) == IF drv.fn = fn THEN {drv.arg[i]} ELSE {}

IbiFunctions ==
    {"filter_valid_ibi", "compute_hr", "compute_hrv_rmssd", "compute_hrv_sdnn"}
BufferFunctions == {"mask_artifacts", "mask_then_extract"}

InitPipeline ==
    /\ InitMonitor
    /\ sessions = NoSessions
    /\ pipe = NoCall
    /\ \/ \E fn \in IbiFunctions, ibi_ms \in IbiSeqs :
            drv = ToCall(fn, <<ibi_ms>>)
       \/ \E mask \in Masks, min_len \in MinLens :
            drv = ToCall("extract_best_segment", <<mask, min_len>>)
       \/ \E fn \in BufferFunctions, signal \in Buffers :
            drv = ToCall(fn, <<signal>>)
       \/ \E signal \in PeakSignals, fs \in PeakRates :
            drv = ToCall("detect_peaks", <<signal, fs>>)
       \/ \E signal \in StageSignals, method \in Methods :
            drv = ToCall("remove_dc", <<signal, method>>)
       \/ \E signal \in StageSignals :
            drv = ToCall("bandpass_filter", <<signal>>)
       \/ \E peak_indices \in PeakSets, fs \in PipeRates :
            drv = ToCall("peaks_to_ibi", <<peak_indices, fs>>)
       \/ \E signal \in StageSignals, fs \in PipeRates :
            drv = ToCall("process_ppg_pipeline", <<signal, fs>>)

FilterValidIbi ==
    /\ pipe = NoCall
    /\ \E ibi_ms \in Arg("filter_valid_ibi", 1) :
        pipe' = Call("filter_valid_ibi", <<ibi_ms>>, filter_valid_ibi(ibi_ms))
    /\ UNCHANGED <<Monitor, drv, sessions>>

ComputeHr ==
    /\ pipe = NoCall
    /\ \E ibi_ms \in Arg("compute_hr", 1) :
        pipe' = Call("compute_hr", <<ibi_ms>>, compute_hr(ibi_ms))
    /\ UNCHANGED <<Monitor, drv, sessions>>

ExtractBestSegment ==
    /\ pipe = NoCall
    /\ \E mask \in Arg("extract_best_segment", 1),
          min_len \in Arg("extract_best_segment", 2) :
        \E signal \in {Ramp(Len(mask))} :
            pipe' = Call("extract_best_segment", <<signal, mask, min_len>>,
                         extract_best_segment(signal, mask, min_len))
    /\ UNCHANGED <<Monitor, drv, sessions>>

MaskArtifacts ==
    /\ pipe = NoCall
    /\ \E signal \in Arg("mask_artifacts", 1) :
        pipe' = Call("mask_artifacts", <<signal>>, mask_artifacts(signal))
    /\ UNCHANGED <<Monitor, drv, sessions>>

\* the masker followed by the segment selector with its default min_len
MaskThenExtract ==
    /\ pipe = NoCall
    /\ \E signal \in Arg("mask_then_extract", 1) :
        \E mask \in {mask_artifacts(signal)} :
            pipe' = Call("mask_then_extract", <<signal>>,
                         [mask |-> mask,
                          best |-> extract_best_segment(signal, mask,
                                                        MinLenDefault)])
    /\ UNCHANGED <<Monitor, drv, sessions>>

DetectPeaks ==
    /\ pipe = NoCall
    /\ \E signal \in Arg("detect_peaks", 1), fs \in Arg("detect_peaks", 2) :
        pipe' = Call("detect_peaks", <<signal, fs>>, detect_peaks(signal, fs))
    /\ UNCHANGED <<Monitor, drv, sessions>>

RemoveDc ==
    /\ pipe = NoCall
    /\ \E signal \in Arg("remove_dc", 1), method \in Arg("remove_dc", 2) :
        pipe' = CallOf("remove_dc", <<signal, method>>,
                       remove_dc(signal, method))
    /\ UNCHANGED <<Monitor, drv, sessions>>

BandpassFilter ==
    /\ pipe = NoCall
    /\ \E signal \in Arg("bandpass_filter", 1) :
        \E result \in bandpass_filter(signal) :
            pipe' = CallOf("bandpass_filter", <<signal>>, result)
    /\ UNCHANGED <<Monitor, drv, sessions>>

PeaksToIbi ==
    /\ pipe = NoCall
    /\ \E peak_indices \in Arg("peaks_to_ibi", 1),
          fs \in Arg("peaks_to_ibi", 2) :
        pipe' = Call("peaks_to_ibi", <<peak_indices, fs>>,
                     peaks_to_ibi(peak_indices, fs))
    /\ UNCHANGED <<Monitor, drv, sessions>>

ComputeHrvRmssd ==
    /\ pipe = NoCall
    /\ \E ibi_ms \in Arg("compute_hrv_rmssd", 1) :
        pipe' = Call("compute_hrv_rmssd", <<ibi_ms>>,
                     compute_hrv_rmssd(ibi_ms))
    /\ UNCHANGED <<Monitor, drv, sessions>>

ComputeHrvSdnn ==
    /\ pipe = NoCall
    /\ \E ibi_ms \in Arg("compute_hrv_sdnn", 1) :
        pipe' = Call("compute_hrv_sdnn", <<ibi_ms>>,
                     compute_hrv_sdnn(ibi_ms))
    /\ UNCHANGED <<Monitor, drv, sessions>>

ProcessPpgPipeline ==
    /\ pipe = NoCall
    /\ \E signal \in Arg("process_ppg_pipeline", 1),
          fs \in Arg("process_ppg_pipeline", 2) :
        \E result \in process_ppg_pipeline(signal, fs) :
            pipe' = CallOf("process_ppg_pipeline", <<signal, fs>>, result)
    /\ UNCHANGED <<Monitor, drv, sessions>>

NextPipeline ==
    \/ FilterValidIbi
    \/ ComputeHr
    \/ ExtractBestSegment
    \/ MaskArtifacts
    \/ MaskThenExtract
    \/ DetectPeaks
    \/ RemoveDc
    \/ BandpassFilter
    \/ PeaksToIbi
    \/ ComputeHrvRmssd
    \/ ComputeHrvSdnn
    \/ ProcessPpgPipeline

SpecPipeline == InitPipeline /\ [][NextPipeline]_vars

-----------------------------------------------------------------------------
(* ml/train_general_model.py: the windowed feature builder.  A recording is *)
(* a sequence of rows; times are integers in ms, medians are in fixed       *)
(* point, and a missing value (nan) is None.                                *)

step_ms == 2000
hr_window_ms == 5000
hrv_window_ms == 15000

\* the rows of a recording: [time, bpm, hrv, hrvReady, spo2, beatQuality]
Calm == <<60, 40, 1, 98, 90>>
Strained == <<80, 20, 1, 96, 60>>
Unready == <<90, 30, 0, 97, 50>>
RowInputs == {<<0, Calm>>, <<0, Unready>>, <<5000, Strained>>,
              <<5000, Unready>>, <<21000, Calm>>, <<21000, Strained>>}
Rows ==
    {[time |-> r[1], bpm |-> r[2][1], hrv |-> r[2][2], hrvReady |-> r[2][3],
      spo2 |-> r[2][4], beatQuality |-> r[2][5]] : r \in RowInputs}
Tables == UNION {[1..n -> Rows] : n \in 0..MaxRows}
Labels == {0, 1}

\* df[name]
Column(df, name) == [i \in 1..Len(df) |-> df[i][name]]

\* the orders the members of a set of positions can be put in
RECURSIVE OrdersOf(_)
OrdersOf(S) ==
    IF S = {} THEN {<<>>}
    ELSE UNION {{Append(p, x) : p \in OrdersOf(S \ {x})} : x \in S}

\* the orders a sequence of n rows can be put in
Orders(n) == OrdersOf(1..n)

\* the rows in the order given: no sorting
AsGiven(df) == {df}

\* df.sort_values("time"): the sort is not stable, rows of equal time may
\* come out in any order
SortsByTime(df) ==
    {[i \in 1..Len(df) |-> df[p[i]]] :
        p \in {q \in Orders(Len(df)) :
                \A i \in 1..(Len(df) - 1) :
                    df[q[i]].time <= df[q[i + 1]].time}}

\* _safe_median, on a column without nan
_safe_median(series) == IF Len(series) = 0 THEN None ELSE Median(series)

\* np.arange(start, stop, step) for a positive step
Arange(start, stop, step) ==
    [k \in 1..(IF stop <= start THEN 0
               ELSE (stop - start + step - 1) \div step) |->
        start + (k - 1) * step]

\* lines 45-62: the row appended for step time t
WindowRow(df, times, t, label) ==
    LET hr_mask == [i \in 1..Len(df) |->
                        times[i] >= t - hr_window_ms /\ times[i] <= t]
        hrv_mask == [i \in 1..Len(df) |->
                        times[i] >= t - hrv_window_ms /\ times[i] <= t]
        ready == [i \in 1..Len(df) |-> hrv_mask[i] /\ df[i].hrvReady = 1]
    IN  [hr |-> _safe_median(MaskIndex(Column(df, "bpm"), hr_mask)),
         hrv |-> _safe_median(MaskIndex(Column(df, "hrv"), ready)),
         spo2 |-> _safe_median(MaskIndex(Column(df, "spo2"), hr_mask)),
         beat_quality |->
            _safe_median(MaskIndex(Column(df, "beatQuality"), hr_mask)),
         label |-> label]

\* lines 40-64: the rows built from df, whose row i has time times[i]
WindowedRows(df, times, label) ==
    LET steps == Arange(times[1] + hr_window_ms, times[Len(times)] + 1,
                        step_ms)
    IN  [k \in 1..Len(steps) |-> WindowRow(df, times, steps[k], label)]

\* build_windowed_features with its default step and lookbacks: the results
\* it can end in.  has_time says whether df has a "time" column; times[0]
\* of an empty recording is an IndexError
build_windowed_features(df, has_time, label) ==
    IF Len(df) = 0 THEN {Raise("IndexError")}
    ELSE IF has_time
    THEN {Ok(WindowedRows(sorted, Column(sorted, "time"), label)) :
            sorted \in SortsByTime(df)}
    ELSE {Ok(WindowedRows(df, [i \in 1..Len(df) |-> (i - 1) * 10], label))}

InitBuilder ==
    /\ InitMonitor
    /\ sessions = NoSessions
    /\ pipe = NoCall
    /\ \E df \in Tables, has_time \in BOOLEAN, label \in Labels :
            drv = ToCall("build_windowed_features", <<df, has_time, label>>)

BuildWindowedFeatures ==
    /\ pipe = NoCall
    /\ \E df \in Arg("build_windowed_features", 1),
          has_time \in Arg("build_windowed_features", 2),
          label \in Arg("build_windowed_features", 3) :
        \E result \in build_windowed_features(df, has_time, label) :
            pipe' = CallOf("build_windowed_features",
                           <<df, has_time, label>>, result)
    /\ UNCHANGED <<Monitor, drv, sessions>>

NextBuilder == BuildWindowedFeatures

SpecBuilder == InitBuilder /\ [][NextBuilder]_vars

-----------------------------------------------------------------------------
(* One session run twice: the monitor itself sees the samples as they were, *)
(* sessions[1] is a second StrainMonitor fed the same session in which each *)
(* sample that follows the freeze is replaced by one with a higher or       *)
(* equal HR and a lower or equal HRV.  Both are driven by the live loop     *)
(* (read_processed_data.py, lines 231-233), a sample every PairCadence s.   *)

PairBase == <<70, 50, 800>>
PairSamples == {<<70, 20, 800>>, <<85, 50, 800>>}
HrRises == {0, 20}
HrvFalls == {0, 16}

\* the samples that may stand in for x
Replacements(x) ==
    {<<x[1] + up, x[2] - down, x[3]>> : up \in HrRises, down \in HrvFalls}

InitPair ==
    /\ InitMonitor
    /\ pipe = NoCall
    /\ drv = [Free EXCEPT !.pc = "add"]
    /\ sessions = <<[self |-> NewMonitor, ret |-> <<>>]>>

\* line 231 in both runs, before the baseline is frozen: the same sample
PairAddBase ==
    /\ drv.pc = "add"
    /\ ~baseline_computed
    /\ Len(hr_window) < MaxPair
    /\ \E t \in {PairCadence * Len(time_window)} :
       \E s \in {add_sample(Self, t, PairBase[1], PairBase[2], PairBase[3])},
          r \in {add_sample(sessions[1].self, t, PairBase[1], PairBase[2],
                            PairBase[3])} :
            /\ Store(s)
            /\ sessions' = <<[self |-> r, ret |-> <<>>]>>
    /\ ret' = <<>>
    /\ drv' = [drv EXCEPT !.pc = "get"]
    /\ UNCHANGED pipe

\* line 231 in both runs, after the freeze: x in one, y in the other
PairAddSample(x, y) ==
    /\ drv.pc = "add"
    /\ baseline_computed
    /\ Len(hr_window) < MaxPair
    /\ \E t \in {PairCadence * Len(time_window)} :
       \E s \in {add_sample(Self, t, x[1], x[2], x[3])},
          r \in {add_sample(sessions[1].self, t, y[1], y[2], y[3])} :
            /\ Store(s)
            /\ sessions' = <<[self |-> r, ret |-> <<>>]>>
    /\ ret' = <<>>
    /\ drv' = [drv EXCEPT !.pc = "get"]
    /\ UNCHANGED pipe

\* line 233 in both runs
PairGetFeatures ==
    /\ drv.pc = "get"
    /\ \E a \in {get_features(Self)}, b \in {get_features(sessions[1].self)} :
            /\ Store(a.self)
            /\ ret' = <<a.ret>>
            /\ sessions' = <<[self |-> b.self, ret |-> <<b.ret>>]>>
    /\ drv' = [drv EXCEPT !.pc = "add"]
    /\ UNCHANGED pipe

NextPair ==
    \/ PairAddBase
    \/ \E x \in PairSamples : \E y \in Replacements(x) : PairAddSample(x, y)
    \/ PairGetFeatures

SpecPair == InitPair /\ [][NextPair]_vars

-----------------------------------------------------------------------------
(* A long session: add_sample is called MaxFill times, call number n with   *)
(* timestamp n and vitals that tell the call; every drv.skip-th call has no *)
(* beat (hr = 0).  The deques reach their capacity and start evicting.      *)

Skips == {7, 50, MaxFill + 2}

\* the sample of call number n
FillSample(n, skip) ==
    <<IF n % skip = 0 THEN 0 ELSE 40 + (n % 90), 10 + (n % 60), 500 + n>>

InitFill ==
    /\ InitMonitor
    /\ InitApart
    /\ drv \in {[pc |-> "fill", calls |-> 0, skip |-> k] : k \in Skips}

\* call number drv.calls + 1 of add_sample, with a beat
FillAccepted ==
    /\ drv.calls < MaxFill
    /\ \E n \in {drv.calls + 1} : \E x \in {FillSample(n, drv.skip)} :
        /\ x[1] > 0
        /\ \E s \in {add_sample(Self, n, x[1], x[2], x[3])} : Store(s)
        /\ drv' = [drv EXCEPT !.calls = n]
    /\ ret' = <<>>
    /\ UNCHANGED <<sessions, pipe>>

\* call number drv.calls + 1 of add_sample, without a beat
FillRejected ==
    /\ drv.calls < MaxFill
    /\ \E n \in {drv.calls + 1} : \E x \in {FillSample(n, drv.skip)} :
        /\ x[1] <= 0
        /\ \E s \in {add_sample(Self, n, x[1], x[2], x[3])} : Store(s)
        /\ drv' = [drv EXCEPT !.calls = n]
    /\ ret' = <<>>
    /\ UNCHANGED <<sessions, pipe>>

NextFill ==
    \/ FillAccepted
    \/ FillRejected

SpecFill == InitFill /\ [][NextFill]_vars

-----------------------------------------------------------------------------
(* read_processed_data.py, lines 119-152: the serial read loop.  drv.loop   *)
(* holds the module's ring buffers and the last vitals received.  A line is *)
(* given by what its parsing meets: whether it is skipped (empty, "ERROR",  *)
(* "["), how many comma-separated parts it has, and for each numeric field  *)
(* its value or Bad when int() / float() raises ValueError.  Timestamps are *)
(* kept in ms, bpm and hrv are whole numbers, the IBI is in fixed point.    *)

\* a field that does not parse; the fields that do are never negative
Bad == None

\* deque(maxlen=1200).append
BufAppend(s, x) ==
    LET a == Append(s, x)
    IN  IF Len(a) > BufMaxLen THEN Tail(a) ELSE a

\* lines 30-40
NewLoop ==
    [t_buf |-> <<>>, ir_buf |-> <<>>, bpm_buf |-> <<>>, hrv_buf |-> <<>>,
     ibi_buf |-> <<>>, spo2_buf |-> <<>>, arduino_bpm_last |-> 0,
     arduino_hrv_last |-> 0, arduino_ibi_last |-> 0, arduino_spo2_last |-> 0]

\* lines 134-138: the five appends
AppendSample(g, line) ==
    [g EXCEPT !.t_buf = BufAppend(@, line.ts),
              !.ir_buf = BufAppend(@, line.ir),
              !.bpm_buf = BufAppend(@, g.arduino_bpm_last),
              !.hrv_buf = BufAppend(@, g.arduino_hrv_last),
              !.ibi_buf = BufAppend(@, g.arduino_ibi_last)]

\* lines 141-149: the vitals of a 9-part line, as far as they parse
ReadVitals(g, line) ==
    IF line.parts < 9 THEN g
    ELSE IF line.bpm = Bad THEN g
    ELSE IF line.hrv = Bad
    THEN [g EXCEPT !.arduino_bpm_last = line.bpm]
    ELSE IF line.spo2 = Bad
    THEN [g EXCEPT !.arduino_bpm_last = line.bpm,
                   !.arduino_hrv_last = line.hrv]
    ELSE Only({[g EXCEPT !.arduino_bpm_last = line.bpm,
                         !.arduino_hrv_last = line.hrv,
                         !.arduino_spo2_last = spo2,
                         !.arduino_ibi_last =
                            IF line.bpm > 0
                            THEN (60000 * Scale) \div line.bpm ELSE 0,
                         !.spo2_buf = BufAppend(@, spo2)] :
                spo2 \in {IF line.spo2 > 0 THEN Min(line.spo2 + 85, 100)
                          ELSE 0}})

\* the loop body with the timestamp appended as soon as it is parsed
read_line_append_early(g, line) ==
    IF line.skip \/ line.parts < 3 \/ line.ts = Bad THEN g
    ELSE IF line.ir = Bad THEN [g EXCEPT !.t_buf = BufAppend(@, line.ts)]
    ELSE ReadVitals(AppendSample(g, line), line)

\* lines 120-152: one pass of the loop body on a line that was read
read_line(g, line) ==
    IF line.skip \/ line.parts < 3 THEN g
    ELSE IF line.ts = Bad \/ line.ir = Bad THEN g
    ELSE ReadVitals(AppendSample(g, line), line)

\* what line number n can be: its fields tell the line
LineKinds ==
    {"empty", "two", "three", "bad_ts", "bad_ir", "nine", "bad_bpm",
     "bad_hrv", "bad_spo2", "no_beat"}
KindCycle ==
    <<"nine", "three", "bad_ir", "bad_hrv", "empty", "three", "bad_spo2",
      "two", "bad_bpm", "no_beat", "bad_ts", "three">>
TsOf(n) == 10 * n
IrOf(ts) == 50000 + ts \div 10
LineOf(n, kind) ==
    [skip |-> kind = "empty",
     parts |-> IF kind = "two" THEN 2
               ELSE IF kind \in {"three", "bad_ts"} THEN 3 ELSE 9,
     ts |-> IF kind = "bad_ts" THEN Bad ELSE TsOf(n),
     ir |-> IF kind = "bad_ir" THEN Bad ELSE IrOf(TsOf(n)),
     bpm |-> IF kind = "bad_bpm" THEN Bad
             ELSE IF kind = "no_beat" THEN 0 ELSE 60 + (n % 30),
     hrv |-> IF kind = "bad_hrv" THEN Bad ELSE 20 + (n % 10),
     spo2 |-> IF kind = "bad_spo2" THEN Bad ELSE n % 20]

InitSerial ==
    /\ InitMonitor
    /\ InitApart
    /\ drv \in {[pc |-> "read", mode |-> m, lines |-> 0, loop |-> NewLoop] :
                    m \in {"any", "cycle"}}

\* a line of any kind arrives
ReadAnyLine(kind) ==
    /\ drv.mode = "any"
    /\ drv.lines < MaxAnyLines
    /\ \E n \in {drv.lines + 1} :
        drv' = [drv EXCEPT !.lines = n,
                           !.loop = read_line(@, LineOf(n, kind))]
    /\ UNCHANGED <<Monitor, sessions, pipe>>

\* a long stream: the kinds of line follow each other in a fixed cycle
ReadCycleLine ==
    /\ drv.mode = "cycle"
    /\ drv.lines < MaxLines
    /\ \E n \in {drv.lines + 1} :
        drv' = [drv EXCEPT
                    !.lines = n,
                    !.loop = read_line(@,
                        LineOf(n, KindCycle[(n % Len(KindCycle)) + 1]))]
    /\ UNCHANGED <<Monitor, sessions, pipe>>

NextSerial ==
    \/ \E kind \in LineKinds : ReadAnyLine(kind)
    \/ ReadCycleLine

SpecSerial == InitSerial /\ [][NextSerial]_vars

-----------------------------------------------------------------------------
(* Properties *)

\* the conditions of compute_baseline, lines 57-62, on the current fields
Elapsed == Last(time_window) - baseline_start_time
Eligible ==
    /\ time_window # <<>>
    /\ Elapsed >= baseline_sec
    /\ Len(Filter(hr_window, HrOk)) >= 5
    /\ Len(Filter(hrv_window, HrvOk)) >= 3

\* C1: once baseline_computed is true, no later add_sample or get_features
\* call changes hr_baseline, hrv_baseline or baseline_computed, so the
\* freeze happens at most once.
C1_BaselineFrozenForever ==
    [][baseline_computed =>
        /\ baseline_computed'
        /\ hr_baseline' = hr_baseline
        /\ hrv_baseline' = hrv_baseline]_vars

\* a frozen baseline that the samples now held would no longer give
C1_Witness ==
    /\ baseline_computed
    /\ ret # <<>>
    /\ Median(Filter(hr_window, HrOk)) # hr_baseline

\* C2 as stated: in every state where the elapsed time is below
\* baseline_sec, or fewer than 5 HR values > 30 or fewer than 3 HRV values
\* > 5 are held, get_features reports baseline_ready = false.
C2_Original ==
    (ret # <<>> /\ ~Eligible) => ~ret[1].baseline_ready

\* C2 amended: a step that starts with the baseline not frozen and ends in a
\* state below the elapsed time or the sample counts leaves it not frozen,
\* and a get_features call made there reports baseline_ready = false.
C2_NoEarlyFreeze ==
    [][(~baseline_computed /\ ~Eligible') =>
        /\ ~baseline_computed'
        /\ (ret' # <<>> => ~ret'[1].baseline_ready)]_vars

\* five samples are held and get_features ran, but the conditions are not
\* met, and the baseline is not frozen
C2_Witness ==
    /\ ret # <<>>
    /\ Len(hr_window) >= 5
    /\ ~Eligible
    /\ ~ret[1].baseline_ready

\* C3: every get_features result has strain_index, hrv_drop and
\* irregularity within [0,1], with or without a frozen baseline.
C3_StrainBounded ==
    ret # <<>> =>
        /\ ret[1].strain_index \in 0..Scale
        /\ ret[1].hrv_drop \in 0..Scale
        /\ ret[1].irregularity \in 0..Scale

\* a result on the frozen path whose irregularity sits at the cap
C3_Witness ==
    /\ ret # <<>>
    /\ ret[1].baseline_ready
    /\ ret[1].irregularity = Scale
    /\ ret[1].hrv_drop > 0

\* the samples whose timestamp lies within window_sec of the newest one
Trailing ==
    {i \in 1..Len(time_window) :
        time_window[i] >= Last(time_window) - window_sec}

Holds(i, x) ==
    hr_window[i] = x[1] /\ hrv_window[i] = x[2] /\ ibi_window[i] = x[3]

\* C4: once get_features has run on at least 5 samples of HR 70 / HRV 50
\* spanning 30 s the baseline is frozen at 70 / 50; with that baseline, a
\* get_features call whose trailing window holds only HR 100 / HRV 20
\* samples reports hrv_drop = 0.6 and strain_index >= 0.64.
C4_RestThenTense ==
    /\ ( /\ ret # <<>>
         /\ Len(hr_window) >= 5
         /\ \A i \in 1..Len(hr_window) : Holds(i, Rest)
         /\ Elapsed >= baseline_sec )
       => ( /\ baseline_computed
            /\ hr_baseline = 70 * Scale
            /\ hrv_baseline = 50 * Scale )
    /\ ( /\ ret # <<>>
         /\ baseline_computed
         /\ hr_baseline = 70 * Scale
         /\ hrv_baseline = 50 * Scale
         /\ \A i \in Trailing : Holds(i, Tense) )
       => ( /\ ret[1].hrv_drop * 10 = 6 * Scale
            /\ ret[1].strain_index * 100 >= 64 * Scale )

\* the baseline was frozen at 70 / 50 and the trailing window has filled
\* with HR 100 / HRV 20 samples while older resting samples are still held
C4_Witness ==
    /\ ret # <<>>
    /\ hr_baseline = 70 * Scale
    /\ hrv_baseline = 50 * Scale
    /\ \A i \in Trailing : Holds(i, Tense)
    /\ Holds(1, Rest)
    /\ ret[1].hrv_drop * 10 = 6 * Scale

\* the samples with HR > 30 and HRV > 5
Good == {i \in 1..Len(hr_window) : HrOk(hr_window[i]) /\ HrvOk(hrv_window[i])}

\* C5: while such samples keep arriving and get_features keeps being
\* called, the baseline is eventually frozen; and every get_features call
\* made with at least baseline_sec elapsed and at least 5 such samples held
\* reports baseline_ready = true.
C5_Calibrates ==
    /\ <>baseline_computed
    /\ []( ( /\ ret # <<>>
             /\ time_window # <<>>
             /\ Elapsed >= baseline_sec
             /\ Cardinality(Good) >= 5 )
           => ret[1].baseline_ready )

\* the call that freezes the baseline on exactly five samples
C5_Witness ==
    /\ ret # <<>>
    /\ ret[1].baseline_ready
    /\ Len(hr_window) = 5
    /\ Elapsed >= baseline_sec

\* the stress stream of the mock session has been fed for window_sec
\* seconds to a monitor frozen on its resting stream
MockStressFed ==
    /\ drv.phase = "stress"
    /\ drv.base = MockRest
    /\ drv.stress = MockTense
    /\ hr_baseline = 72 * Scale
    /\ hrv_baseline = 45 * Scale
    /\ drv.pc = "add"
    /\ Last(time_window) >= drv.onset + window_sec

\* C6 as stated: after 60 s of HR 94 / HRV 16 samples fed to a monitor
\* frozen at 72 / 45, some get_features call of those 60 s returned
\* strain_index > 0.6.
C6_Original ==
    MockStressFed => drv.peak * 10 > 6 * Scale

\* C6 amended: the same, for samples that arrive at least every 10 s.
C6_StressRaisesStrain ==
    (MockStressFed /\ drv.dt <= 10) => drv.peak * 10 > 6 * Scale

\* 60 s of stress samples at the 2 s cadence have driven strain above 0.6
C6_Witness ==
    /\ MockStressFed
    /\ drv.dt = 2
    /\ drv.peak * 10 > 6 * Scale

\* C7: a get_features call that directly follows a get_features call
\* returns the same dict and changes no field.
C7_GetFeaturesIdempotent ==
    [][(ret # <<>> /\ ret' # <<>>) =>
        /\ ret' = ret
        /\ UNCHANGED <<hr_window, hrv_window, ibi_window, time_window,
                       hr_baseline, hrv_baseline, baseline_computed,
                       baseline_start_time>>]_vars

\* get_features has just frozen the baseline and returned a non-zero strain
C7_Witness ==
    /\ ret # <<>>
    /\ ret[1].baseline_ready
    /\ ret[1].strain_index > 0
    /\ Len(hr_window) = 5

\* C8: with fewer than 3 samples held, get_features returns all zeros and
\* baseline_ready = false, and the baseline is not frozen.
C8_TooFewSamples ==
    Len(hr_window) < 3 =>
        /\ ~baseline_computed
        /\ ret # <<>> => ret[1] = ZeroFeatures

\* get_features ran on two samples that span the calibration time
C8_Witness ==
    /\ ret # <<>>
    /\ Len(hr_window) = 2
    /\ Elapsed >= baseline_sec

\* the entries of w at the indices of Trailing, in order
TrailingOf(w) ==
    [j \in 1..Cardinality(Trailing) |->
        w[CHOOSE i \in Trailing : Cardinality({k \in Trailing : k < i}) = j - 1]]

\* C9: with non-decreasing timestamps, hr_mean, hrv_mean and irregularity
\* are those of the samples whose timestamp is >= newest - window_sec.
C9_TrailingWindowOnly ==
    (ret # <<>> /\ Len(hr_window) >= 3) =>
        /\ ret[1].hr_mean = Mean(TrailingOf(hr_window))
        /\ ret[1].hrv_mean =
            (LET v == Filter(TrailingOf(hrv_window), HrvOk)
             IN  IF v # <<>> THEN Mean(v) ELSE 0)
        /\ ret[1].irregularity = Irregularity(TrailingOf(ibi_window))

\* get_features ran while a sample older than window_sec, with another HR
\* than the newest one, was still held
C9_Witness ==
    /\ ret # <<>>
    /\ Len(hr_window) >= 3
    /\ 1 \notin Trailing
    /\ hr_window[1] # Last(hr_window)
    /\ ret[1].hr_mean = Last(hr_window) * Scale

\* C10: with non-decreasing timestamps, every sample held lies within
\* window_sec of the newest one.
C10_WindowWithinHorizon ==
    \A i \in 1..Len(time_window) :
        Last(time_window) - time_window[i] <= window_sec

\* the samples added within baseline_sec of the first accepted one
FirstWindow ==
    {i \in 1..Len(time_window) :
        /\ time_window[i] >= baseline_start_time
        /\ time_window[i] - baseline_start_time <= baseline_sec}

\* the entries of w at the indices of FirstWindow, in order
FirstWindowOf(w) ==
    [j \in 1..Cardinality(FirstWindow) |->
        w[CHOOSE i \in FirstWindow :
            Cardinality({k \in FirstWindow : k < i}) = j - 1]]

MedianOrNone(s) == IF s = <<>> THEN None ELSE Median(s)

\* C11: with non-decreasing timestamps, a frozen baseline is the pair of
\* medians of the HR values > 30 and of the HRV values > 5 of the samples
\* whose timestamp lies within baseline_sec of the first accepted sample,
\* however many samples were added before the freezing get_features call.
C11_FirstWindowBaseline ==
    baseline_computed =>
        /\ hr_baseline = MedianOrNone(Filter(FirstWindowOf(hr_window), HrOk))
        /\ hrv_baseline =
            MedianOrNone(Filter(FirstWindowOf(hrv_window), HrvOk))

RECURSIVE IsSubseq(_, _)
IsSubseq(a, b) ==
    IF Len(a) = 0 THEN TRUE
    ELSE IF Len(b) = 0 THEN FALSE
    ELSE IF Head(a) = Head(b) THEN IsSubseq(Tail(a), Tail(b))
    ELSE IsSubseq(a, Tail(b))

\* the entries of w at the indices in I, in order
AtIndices(w, I) ==
    [j \in 1..Cardinality(I) |->
        w[CHOOSE i \in I : Cardinality({k \in I : k < i}) = j - 1]]

\* C13: every interval returned by filter_valid_ibi lies in [400, 1500] ms
\* and the result is an order-preserving subsequence of the input.
C13_ValidIbiInRange ==
    pipe.fn = "filter_valid_ibi" =>
        /\ \A i \in 1..Len(pipe.out) : pipe.out[i] \in 400..1500
        /\ IsSubseq(pipe.out, pipe.arg[1])

\* intervals just outside both limits were handed in between intervals at
\* the limits, and only those at the limits came back
C13_Witness ==
    /\ pipe.fn = "filter_valid_ibi"
    /\ pipe.arg[1] = <<399, 400, 1501, 1500>>
    /\ pipe.out = <<400, 1500>>

\* the intervals of x within [400, 1500] ms
InRange(x) ==
    AtIndices(x, {i \in 1..Len(x) : 400 <= x[i] /\ x[i] <= 1500})

HrOfValid(valid, hr) ==
    IF Len(valid) = 0 THEN hr = 0
    ELSE /\ hr * Median2(valid) <= 2 * 60000 * Scale
         /\ (hr + 1) * Median2(valid) > 2 * 60000 * Scale

\* C19 as stated: compute_hr returns 60000 / median(valid IBIs), 0 when
\* there is none, and exactly 80 for every sequence whose median is 750 ms.
C19_Original ==
    pipe.fn = "compute_hr" =>
        /\ HrOfValid(filter_valid_ibi(pipe.arg[1]), pipe.out)
        /\ (Len(pipe.arg[1]) > 0 /\ Median2(pipe.arg[1]) = 2 * 750)
                => pipe.out = 80 * Scale

\* C19 amended: the same, with exactly 80 for every sequence whose
\* validated intervals have median 750 ms.
C19_HrFromValidMedian ==
    pipe.fn = "compute_hr" =>
        LET valid == filter_valid_ibi(pipe.arg[1])
        IN  /\ HrOfValid(valid, pipe.out)
            /\ (Len(valid) > 0 /\ Median2(valid) = 2 * 750)
                    => /\ pipe.out = 80 * Scale
                       /\ (2 * 60000 * Scale) % Median2(valid) = 0

\* a sequence whose own median is 1501 ms and whose only valid interval is
\* 750 ms gave 80 BPM
C19_Witness ==
    /\ pipe.fn = "compute_hr"
    /\ pipe.arg[1] = <<750, 1501, 1501>>
    /\ pipe.out = 80 * Scale

\* the maximal runs of true entries of mask, as <<first, last>> (1-based)
Runs(mask) ==
    {r \in (1..Len(mask)) \X (1..Len(mask)) :
        /\ r[1] <= r[2]
        /\ \A i \in r[1]..r[2] : mask[i]
        /\ r[1] = 1 \/ ~mask[r[1] - 1]
        /\ r[2] = Len(mask) \/ ~mask[r[2] + 1]}

RunLen(r) == r[2] - r[1] + 1

\* C15: extract_best_segment returns the longest maximal run of true mask
\* entries of length >= min_len and its start index, the one ending latest
\* among the longest; it returns the empty segment and start 0 exactly when
\* no run has length >= min_len.
C15_LongestLatestRun ==
    pipe.fn = "extract_best_segment" =>
        LET signal == pipe.arg[1]
            long == {r \in Runs(pipe.arg[2]) : RunLen(r) >= pipe.arg[3]}
        IN  /\ (pipe.out = <<(<<>>), 0>>) <=> (long = {})
            /\ long # {} =>
                \E r \in long :
                    /\ \A q \in long :
                            \/ RunLen(r) > RunLen(q)
                            \/ RunLen(r) = RunLen(q) /\ r[2] >= q[2]
                    /\ pipe.out[1] = SubSeq(signal, r[1], r[2])
                    /\ pipe.out[2] = r[1] - 1

\* two runs of the longest length: the later one is returned
C15_Witness ==
    /\ pipe.fn = "extract_best_segment"
    /\ pipe.arg[2] = <<TRUE, TRUE, FALSE, TRUE, TRUE, FALSE>>
    /\ pipe.arg[3] = 2
    /\ pipe.out = <<(<<104, 105>>), 3>>

AllTrue(mask) == \A i \in 1..Len(mask) : mask[i]

\* C16 as stated: for a buffer whose mask is all true, the segment selector
\* applied to the buffer and that mask returns the buffer and start 0.
C16_Original ==
    (pipe.fn = "mask_then_extract" /\ AllTrue(pipe.out.mask)) =>
        pipe.out.best = <<pipe.arg[1], 0>>

\* C16 amended: the same for buffers of at least min_len samples (and the
\* empty buffer); a shorter all-good buffer gives the empty result.
C16_RoundTrip ==
    (pipe.fn = "mask_then_extract" /\ AllTrue(pipe.out.mask)) =>
        IF Len(pipe.arg[1]) >= MinLenDefault \/ Len(pipe.arg[1]) = 0
        THEN pipe.out.best = <<pipe.arg[1], 0>>
        ELSE pipe.out.best = <<(<<>>), 0>>

\* a buffer of more than min_len samples that passed all three checks of
\* the masker came back whole
C16_Witness ==
    /\ pipe.fn = "mask_then_extract"
    /\ Len(pipe.arg[1]) > MinLenDefault
    /\ AllTrue(pipe.out.mask)
    /\ pipe.out.best = <<pipe.arg[1], 0>>

\* C18: the indices returned by detect_peaks are strictly increasing and
\* every two consecutive ones are at least 0.4 * fs samples apart.
C18_PeaksApart ==
    pipe.fn = "detect_peaks" =>
        \A i \in 1..(Len(pipe.out) - 1) :
            /\ pipe.out[i] < pipe.out[i + 1]
            /\ 5 * (pipe.out[i + 1] - pipe.out[i]) >= 2 * pipe.arg[2]

\* C20: in every result of process_ppg_pipeline, with n the number of
\* validated intervals, quality = min(100, 15 * n) when n >= 2 and 0 when
\* n < 2, so quality lies in [0, 100].
C20_QualityFormula ==
    (pipe.fn = "process_ppg_pipeline" /\ pipe.raised = "none") =>
        LET n == Len(filter_valid_ibi(pipe.out.ibi_ms))
        IN  /\ n >= 2 =>
                pipe.out.quality = (IF 15 * n < 100 THEN 15 * n ELSE 100)
            /\ n < 2 => pipe.out.quality = 0
            /\ pipe.out.quality \in 0..100

\* a result with more than 7 validated intervals, whose quality is capped
C20_Witness ==
    /\ pipe.fn = "process_ppg_pipeline"
    /\ pipe.raised = "none"
    /\ Len(filter_valid_ibi(pipe.out.ibi_ms)) > 7
    /\ pipe.out.quality = 100

\* the input of the call is shorter than the minimum length of its stage
ShortInput ==
    \/ pipe.fn = "mask_artifacts" /\ Len(pipe.arg[1]) < 10
    \/ pipe.fn = "extract_best_segment" /\ Len(pipe.arg[1]) < pipe.arg[3]
    \/ pipe.fn = "remove_dc" /\ Len(pipe.arg[1]) = 0
    \/ pipe.fn = "bandpass_filter" /\ Len(pipe.arg[1]) < 28
    \/ pipe.fn = "detect_peaks" /\ Len(pipe.arg[1]) < 10
    \/ pipe.fn = "peaks_to_ibi" /\ Len(pipe.arg[1]) < 2
    \/ pipe.fn \in {"filter_valid_ibi", "compute_hr", "compute_hrv_rmssd",
                    "compute_hrv_sdnn"} /\ Len(pipe.arg[1]) = 0
    \/ pipe.fn = "process_ppg_pipeline" /\ Len(pipe.arg[1]) < 30

\* the call returned the empty or zero result of its stage
DesignatedResult ==
    /\ pipe.fn = "mask_artifacts" =>
            pipe.out = [i \in 1..Len(pipe.arg[1]) |-> TRUE]
    /\ pipe.fn = "extract_best_segment" => pipe.out = <<(<<>>), 0>>
    /\ pipe.fn \in {"remove_dc", "detect_peaks", "peaks_to_ibi",
                    "filter_valid_ibi"} => pipe.out = <<>>
    /\ pipe.fn \in {"compute_hr", "compute_hrv_rmssd", "compute_hrv_sdnn"} =>
            pipe.out = 0
    /\ pipe.fn = "process_ppg_pipeline" =>
            pipe.out = ZeroVitals(Len(pipe.arg[1]))

\* C17: on every input shorter than its stage's minimum length, the empty
\* buffer included, a pipeline stage raises no exception and returns its
\* designated empty or zero result.
C17_ShortInputsGraceful ==
    ShortInput => (pipe.raised = "none" /\ DesignatedResult)

\* the part of C17 that the stages with a length test of their own keep:
\* none of them raises and each returns its designated result
C17_GuardedStagesGraceful ==
    (ShortInput /\ pipe.fn \notin {"remove_dc", "bandpass_filter"}) =>
        (pipe.raised = "none" /\ DesignatedResult)

\* the 0-based starts of the windows of size win that lie inside a buffer of
\* n samples, each half a window after the one before
HalfOverlapStarts(n, win) ==
    {j \in 0..(n - win) : j % (win \div 2) = 0}

\* C21: for a buffer of at least 10 samples, every window of size
\* min(50, len/4) at 50% overlap whose peak-to-peak range is below
\* max(1000, 0.5% of the buffer's median) has all its samples masked false,
\* and a constant buffer is masked false at every index.
C21_FlatWindowsMasked ==
    (pipe.fn = "mask_artifacts" /\ Len(pipe.arg[1]) >= 10) =>
        LET sig == pipe.arg[1]
            n == Len(sig)
            win == Min(50, n \div 4)
        IN  /\ \A j \in HalfOverlapStarts(n, win) :
                    400 * Ptp(Slice(sig, j, j + win))
                        < Max(400 * 1000, Median2(sig))
                    => \A i \in (j + 1)..(j + win) : ~pipe.out[i]
            /\ Ptp(sig) = 0 => \A i \in 1..n : ~pipe.out[i]

\* the rows of df in another order
Reordered(df, p) == [i \in 1..Len(df) |-> df[p[i]]]

\* the median of column name over the rows of df that pass Test, missing
\* if there is none
MedianOver(df, name, Test(_)) ==
    MedianOrNone(Column(SelectSeq(df, Test), name))

\* C22: on a recording with a time column, build_windowed_features has one
\* possible result; it has exactly one row for each step time
\* t = start + hr_window_ms + k * step_ms <= end, in order; that row's hr
\* is the median of bpm over the rows with time in [t - hr_window_ms, t],
\* its hrv the median of hrv over the rows with time in
\* [t - hrv_window_ms, t] and hrvReady = 1 (missing if there are none), its
\* label the given label; and every reordering of the input rows gives the
\* same result.
C22_WindowedRows ==
    (pipe.fn = "build_windowed_features" /\ pipe.raised = "none"
        /\ pipe.arg[2]) =>
        LET df == pipe.arg[1]
            label == pipe.arg[3]
            ts == {df[i].time : i \in 1..Len(df)}
            start == CHOOSE t \in ts : \A u \in ts : t <= u
            end == CHOOSE t \in ts : \A u \in ts : u <= t
            ks == {k \in 0..(end \div step_ms) :
                        start + hr_window_ms + k * step_ms <= end}
        IN  /\ Cardinality(build_windowed_features(df, TRUE, label)) = 1
            /\ Len(pipe.out) = Cardinality(ks)
            /\ \A k \in ks :
                LET t == start + hr_window_ms + k * step_ms
                    InHr(r) == r.time >= t - hr_window_ms /\ r.time <= t
                    InHrv(r) == /\ r.time >= t - hrv_window_ms
                                /\ r.time <= t
                                /\ r.hrvReady = 1
                IN  /\ pipe.out[k + 1].hr = MedianOver(df, "bpm", InHr)
                    /\ pipe.out[k + 1].hrv = MedianOver(df, "hrv", InHrv)
                    /\ pipe.out[k + 1].label = label
            /\ \A p \in Orders(Len(df)) :
                build_windowed_features(Reordered(df, p), TRUE, label)
                    = {Ok(pipe.out)}

\* a recording handed in out of time order that gives several rows, one
\* with an hrv and one without, and an hr that moves from row to row
C22_Witness ==
    /\ pipe.fn = "build_windowed_features"
    /\ pipe.raised = "none"
    /\ pipe.arg[2]
    /\ \E i, j \in 1..Len(pipe.arg[1]) :
            i < j /\ pipe.arg[1][i].time > pipe.arg[1][j].time
    /\ \E a, b \in 1..Len(pipe.out) :
            /\ pipe.out[a].hrv = None
            /\ pipe.out[b].hrv # None
            /\ pipe.out[a].hr # pipe.out[b].hr
            /\ pipe.out[a].hr # None

\* the second run holds the samples of the first with, sample for sample,
\* an HR at least as high, an HRV at most as high and the same IBI and time
SamplesReplaced ==
    LET other == sessions[1].self
    IN  /\ other.time_window = time_window
        /\ other.ibi_window = ibi_window
        /\ Len(other.hr_window) = Len(hr_window)
        /\ Len(other.hrv_window) = Len(hrv_window)
        /\ \A i \in 1..Len(hr_window) :
                /\ other.hr_window[i] >= hr_window[i]
                /\ other.hrv_window[i] <= hrv_window[i]
        /\ other.hr_baseline = hr_baseline
        /\ other.hrv_baseline = hrv_baseline

\* C23: with the same frozen baseline, a window whose samples were replaced
\* by samples of higher HR or lower HRV, other things equal, gets a
\* strain_index from get_features that is not lower.
C23_StrainMonotone ==
    (baseline_computed /\ sessions[1].self.baseline_computed
        /\ ret # <<>> /\ sessions[1].ret # <<>> /\ SamplesReplaced) =>
        sessions[1].ret[1].strain_index >= ret[1].strain_index

\* C24: a get_features call leaves hr_window, hrv_window, ibi_window,
\* time_window and baseline_start_time as they were, and once the baseline
\* is frozen it changes no field of the StrainMonitor.
C24_GetFeaturesKeepsState ==
    [][ret' # <<>> =>
        /\ UNCHANGED <<hr_window, hrv_window, ibi_window, time_window,
                       baseline_start_time>>
        /\ baseline_computed =>
                UNCHANGED <<hr_baseline, hrv_baseline, baseline_computed>>]_vars

\* get_features returned features computed on a frozen baseline while the
\* deques still held a sample older than the trailing window
C24_Witness ==
    /\ ret # <<>>
    /\ baseline_computed
    /\ Len(hr_window) >= 3
    /\ WindowStart(Self) > 0
    /\ ret[1].hr_mean > 0

\* call number n handed in a beat
Accepted(n) == FillSample(n, drv.skip)[1] > 0

\* C25: after any sequence of add_sample calls the four deques have one
\* length, at most 600; entry i of each comes from one and the same call;
\* and they hold the newest accepted calls in order, so that going over
\* the capacity evicts exactly the oldest sample from all four.
C25_DequesAligned ==
    drv.pc = "fill" =>
        LET n == Len(time_window)
        IN  /\ Len(hr_window) = n
            /\ Len(hrv_window) = n
            /\ Len(ibi_window) = n
            /\ n = Min(DequeMaxLen,
                       Cardinality({k \in 1..drv.calls : Accepted(k)}))
            /\ \A i \in 1..n :
                /\ time_window[i] \in 1..drv.calls
                /\ Accepted(time_window[i])
                /\ hr_window[i] = FillSample(time_window[i], drv.skip)[1]
                /\ hrv_window[i] = FillSample(time_window[i], drv.skip)[2]
                /\ ibi_window[i] = FillSample(time_window[i], drv.skip)[3]
            /\ \A i \in 1..(n - 1) :
                /\ time_window[i] < time_window[i + 1]
                /\ \A k \in (time_window[i] + 1)..(time_window[i + 1] - 1) :
                        ~Accepted(k)
            /\ n > 0 => \A k \in (time_window[n] + 1)..drv.calls :
                            ~Accepted(k)

\* the deques are full, the oldest samples have been evicted, and calls
\* without a beat lie between the samples held
C25_Witness ==
    /\ drv.pc = "fill"
    /\ Len(hr_window) = DequeMaxLen
    /\ time_window[1] > 1
    /\ Last(time_window) - time_window[1] >= DequeMaxLen

\* C26: add_sample with hr <= 0 leaves the whole StrainMonitor as it was;
\* no add_sample call changes hr_baseline, hrv_baseline or
\* baseline_computed; baseline_start_time is set by the first accepted
\* sample and no later call changes it.
C26_AddSampleFrame ==
    [][/\ \A t \in Times, x \in Samples :
            \E s \in {add_sample(Self, t, x[1], x[2], x[3])} :
                /\ x[1] <= 0 => s = Self
                /\ s.hr_baseline = hr_baseline
                /\ s.hrv_baseline = hrv_baseline
                /\ s.baseline_computed = baseline_computed
                /\ s.baseline_start_time =
                    (IF baseline_start_time # None THEN baseline_start_time
                     ELSE IF x[1] > 0 THEN t ELSE None)
       /\ ret' = <<>> =>
            UNCHANGED <<hr_baseline, hrv_baseline, baseline_computed>>
       /\ baseline_start_time # None =>
            baseline_start_time' = baseline_start_time
       /\ (baseline_start_time = None /\ baseline_start_time' # None) =>
            /\ time_window = <<>>
            /\ time_window' = <<baseline_start_time'>>]_vars

\* add_sample accepted a sample after the freeze, with a timestamp other
\* than that of the first accepted sample
C26_Witness ==
    /\ ret = <<>>
    /\ baseline_computed
    /\ Len(hr_window) = MaxSamples
    /\ baseline_start_time = time_window[1]
    /\ Last(time_window) # baseline_start_time

\* C27: in every result of process_ppg_pipeline, quality > 0 implies
\* hr > 0, and hr = 0 implies hrv_rmssd = 0, hrv_sdnn = 0 and quality = 0.
C27_VitalsConsistent ==
    (pipe.fn = "process_ppg_pipeline" /\ pipe.raised = "none") =>
        /\ pipe.out.quality > 0 => pipe.out.hr > 0
        /\ pipe.out.hr = 0 =>
            /\ pipe.out.hrv_rmssd = 0
            /\ pipe.out.hrv_sdnn = 0
            /\ pipe.out.quality = 0

\* peaks were found, every interval between them was rejected, and the
\* result carries no heart rate and no quality
C27_Witness ==
    /\ pipe.fn = "process_ppg_pipeline"
    /\ pipe.raised = "none"
    /\ Len(pipe.out.ibi_ms) >= 2
    /\ filter_valid_ibi(pipe.out.ibi_ms) = <<>>
    /\ pipe.out.hr = 0
    /\ pipe.out.quality = 0

\* C28: filter_valid_ibi applied to its own result gives that result back,
\* and compute_hr, compute_hrv_rmssd and compute_hrv_sdnn give on the
\* validated intervals what they give on the raw ones.
C28_FilterIdempotent ==
    /\ pipe.fn = "filter_valid_ibi" => filter_valid_ibi(pipe.out) = pipe.out
    /\ pipe.fn = "compute_hr" =>
            compute_hr(filter_valid_ibi(pipe.arg[1])) = pipe.out
    /\ pipe.fn = "compute_hrv_rmssd" =>
            compute_hrv_rmssd(filter_valid_ibi(pipe.arg[1])) = pipe.out
    /\ pipe.fn = "compute_hrv_sdnn" =>
            compute_hrv_sdnn(filter_valid_ibi(pipe.arg[1])) = pipe.out

\* the five ring buffers of g have one length, at most 1200, and the IR
\* value at each index is that of the line whose timestamp is there
BuffersAligned(g) ==
    /\ Len(g.t_buf) <= BufMaxLen
    /\ Len(g.ir_buf) = Len(g.t_buf)
    /\ Len(g.bpm_buf) = Len(g.t_buf)
    /\ Len(g.hrv_buf) = Len(g.t_buf)
    /\ Len(g.ibi_buf) = Len(g.t_buf)
    /\ \A i \in 1..Len(g.t_buf) : g.ir_buf[i] = IrOf(g.t_buf[i])

\* s with x put at its end and, at capacity, its oldest entry dropped
Pushed(s, x) == IF Len(s) = BufMaxLen THEN Tail(s) \o <<x>> ELSE s \o <<x>>

\* C29: whatever lines arrive, malformed and truncated ones included,
\* t_buf, ir_buf, bpm_buf, hrv_buf and ibi_buf always have one length, at
\* most 1200, and a line either adds one entry to each of the five at once
\* or adds none, so that index i of each belongs to the same line.
C29_BuffersAligned ==
    [][/\ BuffersAligned(drv.loop)
       /\ BuffersAligned(drv'.loop)
       /\ \/ /\ drv'.loop.t_buf = drv.loop.t_buf
             /\ drv'.loop.ir_buf = drv.loop.ir_buf
             /\ drv'.loop.bpm_buf = drv.loop.bpm_buf
             /\ drv'.loop.hrv_buf = drv.loop.hrv_buf
             /\ drv'.loop.ibi_buf = drv.loop.ibi_buf
          \/ /\ drv'.loop.t_buf = Pushed(drv.loop.t_buf, TsOf(drv'.lines))
             /\ drv'.loop.ir_buf =
                    Pushed(drv.loop.ir_buf, IrOf(TsOf(drv'.lines)))
             /\ drv'.loop.bpm_buf =
                    Pushed(drv.loop.bpm_buf, drv.loop.arduino_bpm_last)
             /\ drv'.loop.hrv_buf =
                    Pushed(drv.loop.hrv_buf, drv.loop.arduino_hrv_last)
             /\ drv'.loop.ibi_buf =
                    Pushed(drv.loop.ibi_buf, drv.loop.arduino_ibi_last)]_vars

\* the buffers are full and have evicted, in a stream with malformed lines
\* of every kind
C29_Witness ==
    /\ drv.pc = "read"
    /\ drv.mode = "cycle"
    /\ Len(drv.loop.t_buf) = BufMaxLen
    /\ drv.loop.t_buf[1] > TsOf(Len(KindCycle))
    /\ Len(drv.loop.spo2_buf) < BufMaxLen

\* C30: with a frozen baseline, when the trailing window's hr_mean is at
\* most hr_baseline and its hrv_mean at least hrv_baseline, get_features
\* reports hrv_drop = 0 and strain_index = 0.2 * irregularity, which is at
\* most 0.2.
C30_RestingStrainLow ==
    (ret # <<>> /\ baseline_computed
        /\ ret[1].hr_mean <= hr_baseline
        /\ ret[1].hrv_mean >= hrv_baseline) =>
        /\ ret[1].hrv_drop = 0
        /\ ret[1].strain_index = (2 * ret[1].irregularity) \div 10
        /\ 10 * ret[1].strain_index <= 2 * Scale

\* a window at or below the baseline HR whose HRV lies above the baseline
\* and whose pulse is irregular: the strain is all irregularity
C30_Witness ==
    /\ ret # <<>>
    /\ baseline_computed
    /\ ret[1].hr_mean <= hr_baseline
    /\ ret[1].hrv_mean > hrv_baseline
    /\ ret[1].irregularity > 0
    /\ ret[1].strain_index > 0

====
